---- MODULE Spec2Model ----
(***************************************************************************)
(* Model of the TLS certificate authority's GRPC handlers                  *)
(* (obc-ca/obcca/tlsca.go): TLSCAP.ReadCACertificate,                      *)
(* TLSCAP.CreateCertificate, TLSCAP.ReadCertificate and the two            *)
(* RevokeCertificate stubs, over the certificate store of the embedded CA. *)
(*                                                                         *)
(* A pointer field of a protobuf message is a sequence of length 0 (nil)   *)
(* or 1 (the message pointed to).  Byte strings are sequences of naturals, *)
(* texts are sequences of one-character strings.                           *)
(***************************************************************************)
EXTENDS Integers, Sequences, FiniteSets, TLC

\* ------------------------------------------------------------ bounds

\* Number of certificates the store may allocate in one behaviour.
MaxSerial == 2

\* ------------------------------------------------------------ values

Ids == {"alice", "bob"}

\* Seconds of the requested validity timestamp.
TsSeconds == {3600, 7200}

\* Key material a request may carry in Pub.Key: two PKIX ECDSA keys, one
\* PKIX RSA key, and bytes that are no PKIX structure at all.
Keys == {"ec1", "ec2", "rsa1", "junk"}

EcKeys == {"ec1", "ec2"}

\* pb.CryptoType
CryptoTypes == {"ECDSA", "RSA"}

Digits == <<"0", "1", "2", "3", "4", "5", "6", "7", "8", "9">>

\* A character that is no digit, sign or base prefix.
Junk == "z"

Nil == <<>>

IsNil(p) == p = <<>>

Deref(p) == p[1]

ErrNil == "nil"

ErrUnsupported == "unsupported key type"

ErrSignature == "signature does not verify"

ErrParsePKIX == "asn1: structure error"

ErrStoreCreate == "store: create failed"

ErrStoreRead == "sql: no rows in result set"

\* ------------------------------------------------------------ big.Int text

RECURSIVE Dec(_)
\* Decimal text of a natural number (big.Int.MarshalText / String).
Dec(n) == IF n < 10 THEN <<Digits[n + 1]>> ELSE Dec(n \div 10) \o <<Digits[(n % 10) + 1]>>

IsDigit(c) == \E i \in 1..10 : Digits[i] = c

DigitVal(c) == (CHOOSE i \in 1..10 : Digits[i] = c) - 1

\* Number of leading digit characters of a text.
DigitPrefix(t) ==
    IF \A i \in 1..Len(t) : IsDigit(t[i]) THEN Len(t)
    ELSE (CHOOSE i \in 1..Len(t) : ~IsDigit(t[i]) /\ \A j \in 1..(i - 1) : IsDigit(t[j])) - 1

RECURSIVE DigitsVal(_, _)
\* Value of the first n characters of t, all digits.
DigitsVal(t, n) == IF n = 0 THEN 0 ELSE DigitsVal(t, n - 1) * 10 + DigitVal(t[n])

\* (*big.Int).UnmarshalText on a receiver holding 0: the scanner consumes
\* the leading digits into the receiver, and reports an error when no digit
\* was found or when text is left over.  The receiver keeps what was
\* scanned either way.
UnmarshalText(t) ==
    [val |-> DigitsVal(t, DigitPrefix(t)),
     err |-> DigitPrefix(t) = 0 \/ DigitPrefix(t) < Len(t)]

\* The handler drops UnmarshalText's error and keeps the receiver.
ParseInt(t) == UnmarshalText(t).val

\* ------------------------------------------------------------ keys

\* x509.ParsePKIXPublicKey: the decoded key and its dynamic type, or an
\* error.
ParsePKIXPublicKey(k) ==
    CASE k \in EcKeys -> [err |-> ErrNil, kind |-> "ecdsa", key |-> k]
      [] k = "rsa1"   -> [err |-> ErrNil, kind |-> "rsa", key |-> k]
      [] OTHER        -> [err |-> ErrParsePKIX, kind |-> "none", key |-> k]

KeyIndex(k) == CASE k = "ec1" -> 0 [] k = "ec2" -> 1 [] k = "rsa1" -> 2 [] OTHER -> 3

\* ------------------------------------------------------------ wire encoding

IdBytes(s) == CASE s = "alice" -> <<97, 108>> [] s = "bob" -> <<98, 111>> [] OTHER -> <<>>

KeyBytes(k) == <<48, KeyIndex(k)>>

TypeNum(t) == IF t = "ECDSA" THEN 0 ELSE 1

CharByte(c) == IF IsDigit(c) THEN 48 + DigitVal(c) ELSE 122

TextBytes(t) == [i \in 1..Len(t) |-> CharByte(t[i])]

\* A length-delimited field: tag, length, payload.
Field(tag, payload) == <<tag, Len(payload)>> \o payload

\* A varint field; proto3 leaves a zero value out.
Varint(tag, n) == IF n = 0 THEN <<>> ELSE <<tag, n>>

\* A sub-message field; a nil pointer is left out.
Message(tag, p, payload) == IF IsNil(p) THEN <<>> ELSE Field(tag, payload)

MarshalTimestamp(m) == Varint(1, m.Seconds)

MarshalIdentity(m) == Field(1, IdBytes(m.Id))

MarshalPublicKey(m) == Varint(1, TypeNum(m.Type)) \o Field(2, KeyBytes(m.Key))

MarshalSignature(m) == Field(2, TextBytes(m.R)) \o Field(3, TextBytes(m.S))

\* proto.Marshal of a pb.TLSCertCreateReq: the fields that are set, in tag
\* order.
Marshal(q) ==
    Message(1, q.Ts, IF IsNil(q.Ts) THEN <<>> ELSE MarshalTimestamp(Deref(q.Ts)))
    \o Message(2, q.Id, IF IsNil(q.Id) THEN <<>> ELSE MarshalIdentity(Deref(q.Id)))
    \o Message(3, q.Pub, IF IsNil(q.Pub) THEN <<>> ELSE MarshalPublicKey(Deref(q.Pub)))
    \o Message(4, q.Sig, IF IsNil(q.Sig) THEN <<>> ELSE MarshalSignature(Deref(q.Sig)))

RECURSIVE Absorb(_, _)
\* The digest state after the first n bytes were written.
Absorb(b, n) == IF n = 0 THEN 7 ELSE (Absorb(b, n - 1) * 131 + b[n]) % 10007

\* sha3.New384, Write, Sum(nil): the digest of a byte string.  The digest
\* space is small; DigestsDistinct checks that no two request encodings of
\* the model collide in it.
Sum384(b) == Absorb(b, Len(b))

\* ------------------------------------------------------------ ECDSA

\* Order of the curve's base point: r and s of a signature lie in 1..N-1.
CurveN == 300000

\* The r values a signer's nonces lead to.
Nonces == {7}

\* The s that completes r to a signature of digest h under key k.  Distinct
\* (key, digest, r) give distinct s: a signature verifies for the key and
\* digest it was made for and for no other.
SigS(k, h, r) == 1 + (KeyIndex(k) * 10007 + h) * 10 + r

\* The signatures the holder of k's private key produces for digest h.
Signatures(k, h) == {<<r, SigS(k, h, r)>> : r \in Nonces}

\* ecdsa.Verify: r and s in range, and (r, s) a signature of h under pub.
Verify(pub, h, r, s) ==
    /\ r > 0 /\ s > 0
    /\ r < CurveN /\ s < CurveN
    /\ <<r, s>> \in Signatures(pub, h)

\* ------------------------------------------------------------ certificate store

KeyUsages == {"KeyAgreement", "DigitalSignature"}

UsageNum(u) == IF u = "KeyAgreement" THEN 8 ELSE 1

\* The store of the embedded CA: the number of certificates allocated so
\* far, and the certificate persisted for each identity and key usage
\* (Nil when there is none).
EmptyStore == [serial |-> 0, tab |-> [k \in Ids \X KeyUsages |-> Nil]]

\* The certificate the CA builds: serial number, subject, subject key, key
\* usage and validity.
CertBytes(serial, id, pub, usage, ts) ==
    <<serial>> \o IdBytes(id) \o KeyBytes(pub) \o <<UsageNum(usage), ts>>

\* CA.createCertificate: allocates the next serial number, persists the
\* certificate under (id, usage) and returns its bytes; or fails and
\* persists nothing.
createCertificate(st, id, pub, usage, ts, fault) ==
    IF fault
    THEN [store |-> st, raw |-> Nil, err |-> ErrStoreCreate]
    ELSE LET cert == CertBytes(st.serial + 1, id, pub, usage, ts)
         IN  [store |-> [serial |-> st.serial + 1,
                         tab |-> [st.tab EXCEPT ![<<id, usage>>] = cert]],
              raw |-> cert,
              err |-> ErrNil]

\* CA.readCertificate: the certificate persisted under (id, usage), or an
\* error when there is none.
readCertificate(st, id, usage) ==
    IF st.tab[<<id, usage>>] = Nil
    THEN [raw |-> Nil, err |-> ErrStoreRead]
    ELSE [raw |-> st.tab[<<id, usage>>], err |-> ErrNil]

\* tlsca.raw: the CA's own certificate.
CaRaw == <<0, 116, 108, 115, 99, 97>>

\* ------------------------------------------------------------ requests

OptIdentity == {Nil} \cup {<<[Id |-> i]>> : i \in Ids}

OptPublicKey == {Nil} \cup {<<[Type |-> t, Key |-> k]>> : t \in CryptoTypes, k \in Keys}

OptTimestamp == {Nil} \cup {<<[Seconds |-> n]>> : n \in TsSeconds}

\* pb.TLSCertCreateReq without a signature: what a client signs.
Contents == [Id : OptIdentity, Pub : OptPublicKey, Ts : OptTimestamp, Sig : {Nil}]

\* The key a client signs c with: the private key of c's public key when
\* that is an ECDSA key.
SigningKey(c) ==
    IF ~IsNil(c.Pub) /\ Deref(c.Pub).Key \in EcKeys THEN Deref(c.Pub).Key ELSE "ec1"

\* The signature a client computes over the digest of c, as decimal texts.
SignRequest(c, n) ==
    [R |-> Dec(n), S |-> Dec(SigS(SigningKey(c), Sum384(Marshal(c)), n))]

\* c with one of identity, key bytes or validity changed to another value.
Tamperings(c) ==
    {d \in Contents :
        /\ IsNil(d.Id) = IsNil(c.Id) /\ IsNil(d.Pub) = IsNil(c.Pub) /\ IsNil(d.Ts) = IsNil(c.Ts)
        /\ (~IsNil(c.Pub) => Deref(d.Pub).Type = Deref(c.Pub).Type)
        /\ Cardinality({f \in {"Id", "Pub", "Ts"} : d[f] # c[f]}) = 1}

\* What may become of a signature text on its way: unchanged, trailing
\* junk, junk only, or zero.
Mangled(t) == {t, t \o <<Junk>>, <<Junk>>, <<"0">>}

\* The signatures a request with content c may arrive with: none; the
\* client's signature over c with at most one component mangled, or all
\* zero; or the client's signature over a content that c is a tampering of.
SigsFor(c) ==
    {Nil}
    \cup UNION {{<<[R |-> r, S |-> SignRequest(c, n).S]>> : r \in Mangled(Dec(n))} : n \in Nonces}
    \cup UNION {{<<[R |-> Dec(n), S |-> s]>> : s \in Mangled(SignRequest(c, n).S)} : n \in Nonces}
    \cup {<<[R |-> <<"0">>, S |-> <<"0">>]>>}
    \cup {<<SignRequest(d, n)>> : d \in {e \in Contents : c \in Tamperings(e)}, n \in Nonces}

\* The pb.TLSCertCreateReq messages a client may send.
CreateReqs == UNION {{[c EXCEPT !.Sig = sg] : sg \in SigsFor(c)} : c \in Contents}

\* pb.TLSCertReadReq and pb.TLSCertRevokeReq.
ReadReqs == [Id : OptIdentity]

\* ------------------------------------------------------------ state

VARIABLES
    store,    \* the CA's certificate store
    op,       \* the RPC in progress or last served
    pc,       \* "idle", a line of CreateCertificate, "done" or "panic"
    reqIn,    \* the request as the caller built it
    req,      \* the request structure the handler was passed, as it now is
    loc,      \* CreateCertificate's locals: id, sig, r, s, pub
    ctxDone,  \* the caller cancelled ctx before verification completed
    ret,      \* what the RPC returned: resp (Nil or the payload) and err
    trace,    \* what the call did: steps attempted, errors met, store calls
    issued    \* the identity and certificate of the last TLSCertCreateResp a
              \* caller received, until the next CreateCertificate arrives

vars == <<store, op, pc, reqIn, req, loc, ctxDone, ret, trace, issued>>

NoReq == [Id |-> Nil]

NoLocals == [id |-> "", sig |-> Nil, r |-> 0, s |-> 0, pub |-> Nil]

NoRet == [resp |-> Nil, err |-> ErrNil]

NoTrace == [decoded |-> FALSE, hashed |-> FALSE, failed |-> {}, storeCalls |-> 0]

ErrPanic == "panic"

Init ==
    /\ store = EmptyStore
    /\ op = "none"
    /\ pc = "idle"
    /\ reqIn = NoReq
    /\ req = NoReq
    /\ loc = NoLocals
    /\ ctxDone = FALSE
    /\ ret = NoRet
    /\ trace = NoTrace
    /\ issued = Nil

\* The server takes the next RPC when none is being served.
Ready == pc = "idle"

\* A call arrives with request q: fresh locals, live context.
Enter(name, q) ==
    /\ op' = name
    /\ reqIn' = q
    /\ loc' = NoLocals
    /\ ctxDone' = FALSE

\* return resp, err
Return(resp, err) ==
    /\ pc' = "done"
    /\ ret' = [resp |-> resp, err |-> err]

\* A run-time panic (nil pointer dereference, failed type assertion) in a
\* handler: the server process dies without answering.
Panic ==
    /\ pc' = "panic"
    /\ ret' = [resp |-> Nil, err |-> ErrPanic]

\* ------------------------------------------------------------ TLSCAP.ReadCACertificate

ReadCACertificate ==
    /\ Ready
    /\ Enter("TLSCAP.ReadCACertificate", NoReq)
    /\ req' = NoReq
    /\ trace' = NoTrace
    /\ Return(<<CaRaw>>, ErrNil)
    /\ UNCHANGED <<store, issued>>

\* ------------------------------------------------------------ TLSCAP.CreateCertificate

\* x509.KeyUsageKeyAgreement, as passed to createCertificate
CreateKeyUsage == "KeyAgreement"

\* The request left as it came, signature included.
ZeroSig_keep(q) == q

\* req.Sig = nil
ZeroSig(q) == [q EXCEPT !.Sig = Nil]

\* The call arrives.  (Calls are taken while the store has allocated fewer
\* than MaxSerial certificates.)
CreateCertificate(q) ==
    /\ Ready
    /\ store.serial < MaxSerial
    /\ Enter("TLSCAP.CreateCertificate", q)
    /\ req' = q
    /\ trace' = NoTrace
    /\ pc' = "l93"
    /\ ret' = NoRet
    /\ issued' = Nil
    /\ UNCHANGED store

\* Lines 93-100: id, sig, req.Sig = nil, r and s.
Extract ==
    /\ pc = "l93"
    /\ IF IsNil(req.Id)
       THEN Panic /\ UNCHANGED <<req, loc, trace>>
       ELSE IF IsNil(req.Sig)
       THEN /\ Panic
            /\ req' = ZeroSig(req)
            /\ loc' = [loc EXCEPT !.id = Deref(req.Id).Id]
            /\ UNCHANGED trace
       ELSE /\ req' = ZeroSig(req)
            /\ loc' = [loc EXCEPT !.id = Deref(req.Id).Id,
                                  !.sig = req.Sig,
                                  !.r = ParseInt(Deref(req.Sig).R),
                                  !.s = ParseInt(Deref(req.Sig).S)]
            /\ trace' = [trace EXCEPT !.failed =
                            (IF UnmarshalText(Deref(req.Sig).R).err THEN {"parse r"} ELSE {})
                            \cup (IF UnmarshalText(Deref(req.Sig).S).err THEN {"parse s"} ELSE {})]
            /\ pc' = "l102"
            /\ UNCHANGED ret
    /\ UNCHANGED <<store, op, reqIn, ctxDone, issued>>

\* Lines 102-109: the key type check and the public key decode.
CheckKey ==
    /\ pc = "l102"
    /\ IF IsNil(req.Pub)
       THEN Panic /\ UNCHANGED <<loc, trace>>
       ELSE IF Deref(req.Pub).Type # "ECDSA"
       THEN Return(Nil, ErrUnsupported) /\ UNCHANGED <<loc, trace>>
       ELSE LET p == ParsePKIXPublicKey(Deref(req.Pub).Key)
            IN  IF p.err # ErrNil
                THEN /\ Return(Nil, p.err)
                     /\ trace' = [trace EXCEPT !.decoded = TRUE, !.failed = @ \cup {"decode"}]
                     /\ UNCHANGED loc
                ELSE /\ loc' = [loc EXCEPT !.pub = <<p>>]
                     /\ trace' = [trace EXCEPT !.decoded = TRUE]
                     /\ pc' = "l111"
                     /\ UNCHANGED ret
    /\ UNCHANGED <<store, op, reqIn, req, ctxDone, issued>>

\* Lines 111-116: marshal, hash, verify.
VerifySig ==
    /\ pc = "l111"
    /\ LET raw == Marshal(req)
           pub == Deref(loc.pub)
       IN  IF pub.kind # "ecdsa"
           THEN Panic /\ trace' = [trace EXCEPT !.hashed = TRUE]
           ELSE IF ~Verify(pub.key, Sum384(raw), loc.r, loc.s)
           THEN /\ Return(Nil, ErrSignature)
                /\ trace' = [trace EXCEPT !.hashed = TRUE, !.failed = @ \cup {"verify"}]
           ELSE /\ pc' = "l118"
                /\ trace' = [trace EXCEPT !.hashed = TRUE]
                /\ UNCHANGED ret
    /\ UNCHANGED <<store, op, reqIn, req, loc, ctxDone, issued>>

\* Lines 118-123: the store's createCertificate and the response.
Issue ==
    /\ pc = "l118"
    /\ IF IsNil(req.Ts)
       THEN Panic /\ UNCHANGED <<store, trace>>
       ELSE \E fault \in BOOLEAN :
               LET res == createCertificate(store, loc.id, Deref(loc.pub).key,
                                            CreateKeyUsage, Deref(req.Ts).Seconds, fault)
               IN  /\ store' = res.store
                   /\ IF res.err # ErrNil
                      THEN /\ Return(Nil, res.err)
                           /\ trace' = [trace EXCEPT !.storeCalls = @ + 1,
                                                     !.failed = @ \cup {"store"}]
                      ELSE /\ Return(<<res.raw>>, ErrNil)
                           /\ trace' = [trace EXCEPT !.storeCalls = @ + 1]
    /\ UNCHANGED <<op, reqIn, req, loc, ctxDone, issued>>

\* The caller cancels ctx while the handler has not completed verification.
Cancel ==
    /\ pc \in {"l93", "l102", "l111"}
    /\ ~ctxDone
    /\ ctxDone' = TRUE
    /\ UNCHANGED <<store, op, pc, reqIn, req, loc, ret, trace, issued>>

\* ------------------------------------------------------------ TLSCAP.ReadCertificate

\* A lookup under another key usage.
ReadKeyUsage_sig == "DigitalSignature"

\* x509.KeyUsageKeyAgreement, as passed to readCertificate
ReadKeyUsage == "KeyAgreement"

ReadCertificate(q) ==
    /\ Ready
    /\ Enter("TLSCAP.ReadCertificate", q)
    /\ req' = q
    /\ IF IsNil(q.Id)
       THEN Panic /\ trace' = NoTrace
       ELSE LET res == readCertificate(store, Deref(q.Id).Id, ReadKeyUsage)
            IN  IF res.err # ErrNil
                THEN Return(Nil, res.err) /\ trace' = [NoTrace EXCEPT !.failed = {"store"}]
                ELSE Return(<<res.raw>>, ErrNil) /\ trace' = NoTrace
    /\ UNCHANGED <<store, issued>>

\* ------------------------------------------------------------ RevokeCertificate

ErrNotImplemented == "not yet implemented"

\* A stub that reports success.
RevokeResult_ok == [resp |-> <<"OK">>, err |-> ErrNil]

\* return nil, errors.New("not yet implemented")
RevokeResult == [resp |-> Nil, err |-> ErrNotImplemented]

\* The store after a RevokeCertificate call.
RevokeStore(st) == st

TLSCAP_RevokeCertificate(q) ==
    /\ Ready
    /\ Enter("TLSCAP.RevokeCertificate", q)
    /\ req' = q
    /\ trace' = NoTrace
    /\ Return(RevokeResult.resp, RevokeResult.err)
    /\ store' = RevokeStore(store)
    /\ UNCHANGED issued

TLSCAA_RevokeCertificate(q) ==
    /\ Ready
    /\ Enter("TLSCAA.RevokeCertificate", q)
    /\ req' = q
    /\ trace' = NoTrace
    /\ Return(RevokeResult.resp, RevokeResult.err)
    /\ store' = RevokeStore(store)
    /\ UNCHANGED issued

\* ------------------------------------------------------------ server

\* The server sends what the handler returned; the call's request, locals
\* and context are dropped.
Respond ==
    /\ pc = "done"
    /\ pc' = "idle"
    /\ op' = "none"
    /\ reqIn' = NoReq
    /\ req' = NoReq
    /\ loc' = NoLocals
    /\ ctxDone' = FALSE
    /\ ret' = NoRet
    /\ trace' = NoTrace
    /\ issued' = IF op = "TLSCAP.CreateCertificate" /\ ret.err = ErrNil
                  THEN <<[id |-> loc.id, cert |-> Deref(ret.resp)]>>
                  ELSE issued
    /\ UNCHANGED store

\* ------------------------------------------------------------ specification

Next ==
    \/ ReadCACertificate
    \/ \E q \in CreateReqs : CreateCertificate(q)
    \/ Extract
    \/ CheckKey
    \/ VerifySig
    \/ Issue
    \/ Cancel
    \/ \E q \in ReadReqs : ReadCertificate(q)
    \/ \E q \in ReadReqs : TLSCAP_RevokeCertificate(q)
    \/ \E q \in ReadReqs : TLSCAA_RevokeCertificate(q)
    \/ Respond

Spec == Init /\ [][Next]_vars

\* No two request contents of the model have the same digest.
DigestsDistinct ==
    \A c, d \in Contents : Sum384(Marshal(c)) = Sum384(Marshal(d)) => c = d

\* ------------------------------------------------------------ properties

Creating == op = "TLSCAP.CreateCertificate"

\* The call has ended: with a return, or with a panic.
Ended == pc \in {"done", "panic"}

\* q as the signer saw it: every field but the signature.
Unsigned(q) == [Id |-> q.Id, Pub |-> q.Pub, Ts |-> q.Ts, Sig |-> Nil]

AllPresent(q) == ~IsNil(q.Id) /\ ~IsNil(q.Pub) /\ ~IsNil(q.Ts) /\ ~IsNil(q.Sig)

TaggedECDSA(q) == ~IsNil(q.Pub) /\ Deref(q.Pub).Type = "ECDSA"

KeyTypeFails(q) == ~IsNil(q.Pub) /\ Deref(q.Pub).Type # "ECDSA"

Decodes(q) == TaggedECDSA(q) /\ ParsePKIXPublicKey(Deref(q.Pub).Key).err = ErrNil

DecodeFails(q) == TaggedECDSA(q) /\ ParsePKIXPublicKey(Deref(q.Pub).Key).err # ErrNil

HasEcKey(q) == ~IsNil(q.Pub) /\ Deref(q.Pub).Key \in EcKeys

\* The signature of q verifies under q's key over the digest of q without
\* its signature.
SigVerifies(q) ==
    /\ ~IsNil(q.Sig)
    /\ HasEcKey(q)
    /\ Verify(Deref(q.Pub).Key, Sum384(Marshal(Unsigned(q))),
              UnmarshalText(Deref(q.Sig).R).val, UnmarshalText(Deref(q.Sig).S).val)

VerifyFails(q) == Decodes(q) /\ ~SigVerifies(q)

PassesAll(q) == TaggedECDSA(q) /\ Decodes(q) /\ SigVerifies(q)

\* q carries the signature its key's holder computed over Unsigned(q).
CorrectlySigned(q) ==
    /\ ~IsNil(q.Sig)
    /\ HasEcKey(q)
    /\ \E n \in Nonces : Deref(q.Sig) = SignRequest(Unsigned(q), n)

\* q carries the signature that was computed for a request d with an ECDSA
\* key, and differs from d in the identity, the key bytes or the validity.
TamperedAfterSigning(q) ==
    /\ ~IsNil(q.Sig)
    /\ \E d \in Contents :
          /\ HasEcKey(d)
          /\ Unsigned(q) \in Tamperings(d)
          /\ \E n \in Nonces : Deref(q.Sig) = SignRequest(d, n)

NonNumeric(txt) == UnmarshalText(txt).err

\* C1 (as claimed): when a CreateCertificate call has ended, a request that
\* fails the key-type check, the key decode or the signature verification
\* got that step's error and the store was not invoked; a request that
\* passes all three had the store invoked exactly once.
C1_StoreOnlyAfterChecks ==
    (Creating /\ Ended) =>
        /\ KeyTypeFails(reqIn) => (ret.err = ErrUnsupported /\ trace.storeCalls = 0 /\ pc = "done")
        /\ DecodeFails(reqIn) => (ret.err = ErrParsePKIX /\ trace.storeCalls = 0 /\ pc = "done")
        /\ VerifyFails(reqIn) => (ret.err = ErrSignature /\ trace.storeCalls = 0 /\ pc = "done")
        /\ PassesAll(reqIn) => trace.storeCalls = 1

\* C2 (as claimed): a correctly signed request passes verification; a
\* request with the ECDSA tag and an identity whose identity, key bytes or
\* validity was changed after signing ends with "signature does not verify"
\* and no certificate issued.
C2_Original ==
    (Creating /\ Ended /\ TaggedECDSA(reqIn) /\ ~IsNil(reqIn.Id)) =>
        /\ CorrectlySigned(reqIn) => (trace.hashed /\ "verify" \notin trace.failed)
        /\ TamperedAfterSigning(reqIn) =>
              (pc = "done" /\ ret.err = ErrSignature /\ trace.storeCalls = 0)

\* C2 (amended): a correctly signed request with the ECDSA tag and an
\* identity reaches verification and passes it.  A request changed after
\* signing in identity, key bytes or validity never gets a certificate and
\* never a success response: the call ends with "signature does not verify"
\* when the request has an identity and its key decodes to an ECDSA key,
\* with the decoder's error when the key bytes do not decode, and with a
\* panic when the identity is absent or the key decodes to another kind.
C2_SignedVerifiesTamperedFails ==
    /\ (Creating /\ TaggedECDSA(reqIn) /\ ~IsNil(reqIn.Id) /\ CorrectlySigned(reqIn)) =>
          /\ pc \in {"l93", "l102", "l111", "l118", "done", "panic"}
          /\ pc \in {"l118", "done", "panic"} => (trace.hashed /\ "verify" \notin trace.failed)
          /\ pc = "done" => ret.err \in {ErrNil, ErrStoreCreate}
          /\ pc = "panic" => IsNil(reqIn.Ts)
    /\ (Creating /\ TaggedECDSA(reqIn) /\ TamperedAfterSigning(reqIn)) =>
          /\ pc # "l118"
          /\ trace.storeCalls = 0
          /\ ret.resp = Nil
          /\ Ended =>
                IF IsNil(reqIn.Id) THEN pc = "panic"
                ELSE IF DecodeFails(reqIn) THEN pc = "done" /\ ret.err = ErrParsePKIX
                ELSE IF ~HasEcKey(reqIn) THEN pc = "panic"
                ELSE pc = "done" /\ ret.err = ErrSignature

\* A correctly signed request was verified and went on to the store; and a
\* request tampered after signing was refused by the verification.
C2_Witness ==
    /\ Creating /\ pc = "done"
    /\ TaggedECDSA(reqIn) /\ HasEcKey(reqIn)
    /\ TamperedAfterSigning(reqIn)
    /\ ret.err = ErrSignature
    /\ store.serial > 0

\* C3 (as claimed): a request whose key algorithm tag is not ECDSA ends with
\* "unsupported key type", with no key decoded and nothing serialized or
\* hashed.
C3_UnsupportedKeyTypeFirst ==
    (Creating /\ Ended /\ KeyTypeFails(reqIn)) =>
        /\ pc = "done"
        /\ ret.err = ErrUnsupported
        /\ ~trace.decoded
        /\ ~trace.hashed

\* C4 (as claimed, for requests with every sub-message present): when r or
\* s is a non-numeric text and the key is a valid ECDSA key, the call does
\* not panic, hashes the request, returns "signature does not verify" and
\* does not invoke the store.
C4_NonNumericIsInvalid ==
    (/\ Creating /\ Ended
     /\ AllPresent(reqIn) /\ TaggedECDSA(reqIn) /\ HasEcKey(reqIn)
     /\ (NonNumeric(Deref(reqIn.Sig).R) \/ NonNumeric(Deref(reqIn.Sig).S))) =>
        /\ pc = "done"
        /\ trace.hashed
        /\ ret.err = ErrSignature
        /\ trace.storeCalls = 0

RevokeOps == {"TLSCAP.RevokeCertificate", "TLSCAA.RevokeCertificate"}

\* C5: every RevokeCertificate call, on either service and in any state of
\* the store, returns no status and the error "not yet implemented", and
\* leaves the store as it was.
C5_RevokeNotImplemented ==
    [][(pc = "idle" /\ op' \in RevokeOps) =>
          /\ pc' = "done"
          /\ ret'.resp = Nil
          /\ ret'.err = "not yet implemented"
          /\ store' = store]_vars

\* TLSCAA.RevokeCertificate was called for an identity that has a
\* certificate in the store.
C5_Witness ==
    /\ op = "TLSCAA.RevokeCertificate"
    /\ pc = "done"
    /\ ~IsNil(req.Id)
    /\ store.tab[<<Deref(req.Id).Id, "KeyAgreement">>] # Nil

\* C6: a successful CreateCertificate returns, unaltered, the bytes the
\* store persisted for the identity under the key-agreement usage; and a
\* ReadCertificate for the identity of the certificate a caller has just
\* been issued, with no CreateCertificate in between, returns exactly the
\* bytes CreateCertificate returned.
C6_CreateReadRoundTrip ==
    [][/\ (pc = "l118" /\ pc' = "done" /\ ret'.err = ErrNil) =>
             ret'.resp = <<store'.tab[<<loc.id, "KeyAgreement">>]>>
       /\ (/\ pc = "idle"
           /\ issued # Nil
           /\ op' = "TLSCAP.ReadCertificate"
           /\ req'.Id = <<[Id |-> Deref(issued).id]>>) =>
             /\ pc' = "done"
             /\ ret' = [resp |-> <<Deref(issued).cert>>, err |-> ErrNil]]_vars

\* A certificate was issued, the second for its identity, and read back.
C6_Witness ==
    /\ op = "TLSCAP.ReadCertificate"
    /\ pc = "done"
    /\ issued # Nil
    /\ req.Id = <<[Id |-> Deref(issued).id]>>
    /\ ret.resp = <<Deref(issued).cert>>
    /\ Deref(issued).cert[1] = 2
    /\ store.tab[<<CHOOSE i \in Ids : i # Deref(issued).id, "KeyAgreement">>] = Nil

\* C7 (as claimed): when CreateCertificate has returned, the request the
\* caller passed in is as the caller built it, signature included.
C7_RequestUntouched ==
    (Creating /\ pc = "done") => req = reqIn

\* C8 (as claimed): a CreateCertificate or ReadCertificate call in which a
\* step reported an error returns an error and no response, and a store
\* error is returned as the store gave it.
C8_NoErrorSwallowed ==
    (op \in {"TLSCAP.CreateCertificate", "TLSCAP.ReadCertificate"} /\ pc = "done") =>
        /\ trace.failed # {} => (ret.err # ErrNil /\ ret.resp = Nil)
        /\ "store" \in trace.failed => ret.err \in {ErrStoreCreate, ErrStoreRead}

\* C9 (as claimed): a call whose context was cancelled before verification
\* completed never invokes the store's createCertificate.
C9_CancelStopsIssuance ==
    (Creating /\ ctxDone) => trace.storeCalls = 0

\* C10 (as claimed): no CreateCertificate call ends in a panic.
C10_NoPanic ==
    Creating => pc # "panic"

====
